---- MODULE Spec2Model ----
(***************************************************************************)
(* Model of update_hashes.py: the scanner (PATTERN, find_action_references,*)
(* collect_all_references), the resolver (get_latest_commit_for_path,      *)
(* get_hash_mapping) and the rewriter (the body of main).                  *)
(*                                                                         *)
(* Text is modelled character by character: a string is a sequence of      *)
(* one-character strings, so that the regular-expression scan and          *)
(* str.replace are computed on the text as the code computes them.         *)
(***************************************************************************)
EXTENDS Integers, Sequences, FiniteSets, TLC

-----------------------------------------------------------------------------
(* Bounds of the model *)

\* the total number of lines of the .yml files of the scanned directory
MaxLines == 2

\* the number of successive invocations of the tool in one behaviour
MaxRuns == 2

-----------------------------------------------------------------------------
(* Characters and character classes of PATTERN *)

Lower == {"a", "b", "c", "d", "e", "f", "g", "h", "i", "j", "k", "l", "m",
          "n", "o", "p", "q", "r", "s", "t", "u", "v", "w", "x", "y", "z"}

Digit == {"0", "1", "2", "3", "4", "5", "6", "7", "8", "9"}

\* \s
Whitespace == {" ", "\n", "\t", "\r"}

\* every character a modelled text can hold
Alphabet == Lower \cup Digit \cup Whitespace
              \cup {".", "_", "/", "-", "@", ":", "#", "X", "R", "P", "L", "F"}

\* [a-f0-9]
HexChars == {"a", "b", "c", "d", "e", "f"} \cup Digit

\* [a-z0-9._/-]
DirPathChars == Lower \cup Digit \cup {".", "_", "/", "-"}

\* [^@\s]
WorkflowPathChars == Alphabet \ ({"@"} \cup Whitespace)

\* the {40} of PATTERN: the length of a full commit hash
HashLen == 40

\* the literal "XRPLF/actions/"
PREFIX == <<"X", "R", "P", "L", "F", "/", "a", "c", "t", "i", "o", "n", "s", "/">>

\* the literal ".github/workflows/"
WORKFLOWS == <<".", "g", "i", "t", "h", "u", "b", "/",
               "w", "o", "r", "k", "f", "l", "o", "w", "s", "/">>

-----------------------------------------------------------------------------
(* PATTERN and re.finditer *)

\* the literal lit occurs in s at position i
HasAt(s, i, lit) ==
  /\ i + Len(lit) - 1 <= Len(s)
  /\ \A k \in 1..Len(lit) : s[i + k - 1] = lit[k]

Min(S) == CHOOSE x \in S : \A y \in S : x <= y

Max(S) == CHOOSE x \in S : \A y \in S : y <= x

\* the position after the longest run of characters of class cls that starts at i
RunEnd(s, i, cls) == Min({j \in i..(Len(s) + 1) : j > Len(s) \/ s[j] \notin cls})

\* the positions of s where the literal lit occurs
Occurrences(s, lit) == {j \in 1..Len(s) : HasAt(s, j, lit)}

\* the first of the positions occ from i on, or n + 1 when there is none
NextIn(occ, i, n) == Min({j \in occ : j >= i} \cup {n + 1})

\* "@([a-f0-9]{40})" matches at position e
TailAt(s, e) ==
  /\ e + HashLen <= Len(s)
  /\ s[e] = "@"
  /\ \A k \in 1..HashLen : s[e + k] \in HexChars

\* The ends a greedy "cls+" starting at ps can take such that the rest of PATTERN
\* matches: the engine tries the longest run first and backtracks one character
\* at a time, so the match it returns has the largest of these ends.
PathEnds(s, ps, cls) == {e \in (ps + 1)..RunEnd(s, ps, cls) : TailAt(s, e)}

NoMatch == [found |-> FALSE]

\* One attempt of PATTERN at position i: the first alternative
\* (\.github/workflows/[^@\s]+) is tried before the second ([a-z0-9._/-]+).
MatchAt(s, i) ==
  IF ~HasAt(s, i, PREFIX) THEN NoMatch
  ELSE LET ps == i + Len(PREFIX)
           wf == IF HasAt(s, ps, WORKFLOWS)
                   THEN PathEnds(s, ps + Len(WORKFLOWS), WorkflowPathChars)
                   ELSE {}
           dr == PathEnds(s, ps, DirPathChars)
           pe == IF wf # {} THEN Max(wf) ELSE Max(dr)
       IN  IF wf = {} /\ dr = {} THEN NoMatch
           ELSE [found |-> TRUE, start |-> i, pathStart |-> ps, pathEnd |-> pe,
                 stop |-> pe + HashLen + 1]

\* PATTERN.finditer(content): the non-overlapping matches, left to right, from i
\* on. A match starts with PREFIX, so the scan steps from one occurrence of PREFIX
\* (the positions occ) to the next: after a match it resumes at the match's end,
\* after a failed attempt one character further.
RECURSIVE FindIterIn(_, _, _)
FindIterIn(s, i, occ) ==
  LET j == NextIn(occ, i, Len(s))
  IN  IF j > Len(s) THEN <<>>
      ELSE LET m == MatchAt(s, j)
           IN  IF m.found THEN <<m>> \o FindIterIn(s, m.stop, occ)
               ELSE FindIterIn(s, j + 1, occ)

FindIter(s, i) == FindIterIn(s, i, Occurrences(s, PREFIX))

\* ActionReference(full_match = group(0), action_path = group(1), current_hash = group(2))
ActionReference(s, m) ==
  [full_match   |-> SubSeq(s, m.start, m.stop - 1),
   action_path  |-> SubSeq(s, m.pathStart, m.pathEnd - 1),
   current_hash |-> SubSeq(s, m.pathEnd + 1, m.stop - 1)]

\* find_action_references: the set of the references of a file's text
find_action_references(content) ==
  LET ms == FindIter(content, 1)
  IN  {ActionReference(content, ms[k]) : k \in 1..Len(ms)}

-----------------------------------------------------------------------------
(* str.replace *)

\* s.replace(old, new): every non-overlapping occurrence of old, left to right
\* (occ: the positions of s where old occurs)
RECURSIVE ReplaceFrom(_, _, _, _, _)
ReplaceFrom(s, i, old, new, occ) ==
  LET j == NextIn(occ, i, Len(s))
  IN  IF j > Len(s) THEN SubSeq(s, i, Len(s))
      ELSE SubSeq(s, i, j - 1) \o new \o ReplaceFrom(s, j + Len(old), old, new, occ)

\* (old is never empty here: a full_match holds PREFIX, a hash HashLen digits)
Replace(s, old, new) == ReplaceFrom(s, 1, old, new, Occurrences(s, old))

-----------------------------------------------------------------------------
(* The inputs the model draws from *)

Repeat(c, n) == [k \in 1..n |-> c]

\* the commit hashes of the model: HashLen copies of one hexadecimal digit
HashDigits == {"a", "b"}
Hash(c) == Repeat(c, HashLen)
Hashes == {Hash(c) : c \in HashDigits}

\* a directory reference path, and a workflow-file path whose text holds the
\* text of a reference to that directory
DirPath == <<"x">>
NestedPath == WORKFLOWS \o PREFIX \o DirPath
Paths == {DirPath, NestedPath}

RefText(path, hash) == PREFIX \o path \o <<"@">> \o hash

\* the lines a .yml file is made of
Lines ==
  {\* a reference to the directory
   <<"-", " ">> \o RefText(DirPath, Hash("a")),
   \* the same with another hash, a 41st hexadecimal digit and a comment after it
   RefText(DirPath, Hash("b")) \o <<"f", " ", "#">>,
   \* a reference to the workflow file
   <<"-", " ">> \o RefText(NestedPath, Hash("a")),
   \* an upper-case path, which PATTERN does not match
   <<"n", ":", " ">> \o PREFIX \o <<"X", "@">> \o Hash("a")}

RECURSIVE JoinLines(_)
JoinLines(ls) ==
  IF ls = <<>> THEN <<>> ELSE Head(ls) \o <<"\n">> \o JoinLines(Tail(ls))

LineSeqs == UNION {[1..k -> Lines] : k \in 0..MaxLines}

\* the .yml files under the directory, in the order rglob enumerates them
FileOrder == <<"a.yml", "b.yml">>
Files == {FileOrder[k] : k \in 1..Len(FileOrder)}

InitialDisks ==
  {[f \in Files |-> JoinLines(IF f = "a.yml" THEN la ELSE lb)] :
     <<la, lb>> \in {pr \in LineSeqs \X LineSeqs : Len(pr[1]) + Len(pr[2]) <= MaxLines}}

\* the latest commit that touched each path, which is what
\* "git log -n 1 --pretty=format:%H -- path" prints when it finds the path's history
Histories == [Paths -> Hashes]

-----------------------------------------------------------------------------
(* The scanner *)

\* collect_all_references: for the files from the k-th of FileOrder on, the items
\* (file, references) of the dict, in insertion order; a file without references
\* gets no item
RECURSIVE CollectFrom(_, _)
CollectFrom(d, k) ==
  IF k > Len(FileOrder) THEN <<>>
  ELSE LET references == find_action_references(d[FileOrder[k]])
       IN  IF references # {}
             THEN <<[file |-> FileOrder[k], references |-> references]>>
                    \o CollectFrom(d, k + 1)
             ELSE CollectFrom(d, k + 1)

collect_all_references(d) == CollectFrom(d, 1)

-----------------------------------------------------------------------------
(* The resolver *)

\* str.strip()
RECURSIVE LStrip(_)
LStrip(s) == IF s # <<>> /\ Head(s) \in Whitespace THEN LStrip(Tail(s)) ELSE s

RECURSIVE RStrip(_)
RStrip(s) ==
  IF s # <<>> /\ s[Len(s)] \in Whitespace THEN RStrip(SubSeq(s, 1, Len(s) - 1)) ELSE s

Strip(s) == RStrip(LStrip(s))

\* the replies of the git child process for a path: it prints the latest commit
\* of the path and exits with 0; or it finds no commit for the path, prints
\* nothing and exits with 0; or it fails and exits with another status
GitReplies(hist, path) ==
  {[returncode |-> 0, stdout |-> hist[path]],
   [returncode |-> 0, stdout |-> <<>>],
   [returncode |-> 128, stdout |-> <<>>]}

\* faulty variant: neither check=True nor the assertion
UncheckedCommitForPath(reply) == [raised |-> FALSE, value |-> Strip(reply.stdout)]

\* get_latest_commit_for_path, from the reply of the child process:
\* subprocess.run(check=True) raises on a non-zero status, the assertion on an
\* empty hash
get_latest_commit_for_path(reply) ==
  IF reply.returncode # 0 THEN [raised |-> TRUE]
  ELSE LET commit_hash == Strip(reply.stdout)
       IN  IF commit_hash = <<>> THEN [raised |-> TRUE]
           ELSE [raised |-> FALSE, value |-> commit_hash]

\* faulty variant: no path counts as resolved
NeverResolved(mapping, path) == FALSE

\* "ref.action_path in hash_mapping"
AlreadyResolved(mapping, path) == path \in DOMAIN mapping

EmptyMapping == [p \in {} |-> <<>>]

\* hash_mapping[path] = latest_hash
Store(mapping, path, latest_hash) ==
  [p \in DOMAIN mapping \cup {path} |-> IF p = path THEN latest_hash ELSE mapping[p]]

-----------------------------------------------------------------------------
(* The rewriter *)

\* f"XRPLF/actions/{ref.action_path}@{latest_hash}"
NewRef(ref, latest_hash) == PREFIX \o ref.action_path \o <<"@">> \o latest_hash

\* the line main prints for a substitution
Report(file, ref, latest_hash) ==
  [file |-> file, old_ref |-> ref.full_match, new_ref |-> NewRef(ref, latest_hash)]

\* faulty variant: the hash alone is replaced
UpdateReferenceByHash(acc, file, ref, mapping) ==
  LET latest_hash == mapping[ref.action_path]
  IN  IF ref.current_hash = latest_hash THEN acc
      ELSE [content       |-> Replace(acc.content, ref.current_hash, latest_hash),
            total_updates |-> acc.total_updates + 1,
            printed       |-> Append(acc.printed, Report(file, ref, latest_hash))]

\* faulty variant: only a replace that changed the text counts
UpdateReferenceCountingChanges(acc, file, ref, mapping) ==
  LET latest_hash == mapping[ref.action_path]
      content     == Replace(acc.content, ref.full_match, NewRef(ref, latest_hash))
  IN  IF ref.current_hash = latest_hash THEN acc
      ELSE [content       |-> content,
            total_updates |-> acc.total_updates + (IF content = acc.content THEN 0 ELSE 1),
            printed       |-> Append(acc.printed, Report(file, ref, latest_hash))]

\* one iteration of "for ref in references" of main, on the content, the counter
\* and the printed lines so far
UpdateReference(acc, file, ref, mapping) ==
  LET latest_hash == mapping[ref.action_path]
  IN  IF ref.current_hash = latest_hash THEN acc
      ELSE [content       |-> Replace(acc.content, ref.full_match, NewRef(ref, latest_hash)),
            total_updates |-> acc.total_updates + 1,
            printed       |-> Append(acc.printed, Report(file, ref, latest_hash))]

\* "for ref in references", in the order the set is iterated in
RECURSIVE UpdateReferences(_, _, _, _)
UpdateReferences(acc, file, order, mapping) ==
  IF order = <<>> THEN acc
  ELSE UpdateReferences(UpdateReference(acc, file, Head(order), mapping),
                        file, Tail(order), mapping)

\* the orders a set can be iterated in: the hash of an ActionReference is the hash
\* of its strings, which differs from one process to the next
Orders(S) ==
  {o \in [1..Cardinality(S) -> S] : \A i, j \in 1..Cardinality(S) : o[i] = o[j] => i = j}

\* faulty variant: the file is written in preview mode too
PersistIgnoringDryRun(dry, file, content, old_content, st) ==
  IF content = old_content THEN st
  ELSE [disk |-> [st.disk EXCEPT ![file] = content],
        files_modified |-> st.files_modified + 1,
        modified |-> st.modified \cup {file},
        written |-> st.written \cup {file}]

\* faulty variant: no comparison with the original content
PersistWithoutComparison(dry, file, content, old_content, st) ==
  [disk |-> IF dry THEN st.disk ELSE [st.disk EXCEPT ![file] = content],
   files_modified |-> st.files_modified + 1,
   modified |-> st.modified \cup {file},
   written |-> IF dry THEN st.written ELSE st.written \cup {file}]

\* faulty variant: a file counts only when it is written
PersistCountingWrites(dry, file, content, old_content, st) ==
  IF content = old_content \/ dry THEN st
  ELSE [disk |-> [st.disk EXCEPT ![file] = content],
        files_modified |-> st.files_modified + 1,
        modified |-> st.modified \cup {file},
        written |-> st.written \cup {file}]

\* The end of the body of "for file, references in all_references.items()":
\* "if content == old_content: continue", then the count, then the write unless
\* --dry-run. st holds the disk, files_modified, the files counted and the files
\* written so far.
Persist(dry, file, content, old_content, st) ==
  IF content = old_content THEN st
  ELSE [disk |-> IF dry THEN st.disk ELSE [st.disk EXCEPT ![file] = content],
        files_modified |-> st.files_modified + 1,
        modified |-> st.modified \cup {file},
        written |-> IF dry THEN st.written ELSE st.written \cup {file}]

\* faulty variant: no assertion on the directory
DirCheckSkipped(isdir) == TRUE

\* "assert args.directory.is_dir()" passes
DirCheck(isdir) == isdir

-----------------------------------------------------------------------------
(* The state *)

VARIABLES
  disk,            \* the text of every .yml file under the directory
  history,         \* the latest commit of each path of the actions repository
  pc,              \* where the tool is: "idle", "main", "scan", "resolve",
                   \* "rewrite", "done", "abort_dir", "abort_query"
  run,             \* the number of invocations so far
  dry_run,         \* args.dry_run
  dir_ok,          \* args.directory.is_dir()
  all_references,  \* the dict of main, as the sequence of its items
  hash_mapping,    \* the dict of get_hash_mapping
  res_i,           \* get_hash_mapping: the item of all_references being iterated
  res_todo,        \* get_hash_mapping: its references not iterated yet
  rw_i,            \* main: the item of all_references the rewriter is at
  files_modified,  \* the counter of main
  total_updates,   \* the counter of main
  printed,         \* the substitution lines main printed, in order
  disk0,           \* history variable: the disk when the run started
  scanned,         \* history variable: the files the scanner read in this run
  queries,         \* history variable: the number of git queries per path, this run
  git_failed,      \* history variable: a git query of this run failed
  modified,        \* history variable: the files counted in files_modified
  written,         \* history variable: the files write_text was called on
  results,         \* history variable: per file the rewriter handled, its content in
                   \* memory after the substitutions and the updates it added
  prev             \* history variable: what the previous run, if it completed,
                   \* started from, printed and counted

vars == <<disk, history, pc, run, dry_run, dir_ok, all_references, hash_mapping,
          res_i, res_todo, rw_i, files_modified, total_updates, printed, disk0,
          scanned, queries, git_failed, modified, written, results, prev>>

env == <<history>>
args == <<run, dry_run, dir_ok, disk0>>
scan == <<all_references, scanned>>
resolver == <<hash_mapping, res_i, res_todo, queries, git_failed>>
rewriter == <<disk, rw_i, files_modified, total_updates, printed, modified, written,
              results>>

NoRun == [completed |-> FALSE]

Init ==
  /\ disk \in InitialDisks
  /\ history \in Histories
  /\ pc = "idle"
  /\ run = 0
  /\ dry_run = FALSE
  /\ dir_ok = TRUE
  /\ all_references = <<>>
  /\ hash_mapping = EmptyMapping
  /\ res_i = 1
  /\ res_todo = {}
  /\ rw_i = 1
  /\ files_modified = 0
  /\ total_updates = 0
  /\ printed = <<>>
  /\ disk0 = disk
  /\ scanned = {}
  /\ queries = EmptyMapping
  /\ git_failed = FALSE
  /\ modified = {}
  /\ written = {}
  /\ results = EmptyMapping
  /\ prev = NoRun

-----------------------------------------------------------------------------
(* The actions *)

\* The operator starts the tool, with or without --dry-run, on a path that is a
\* directory or not. A run that aborted ends the session.
Invoke(dry, isdir) ==
  /\ pc \in {"idle", "done"}
  /\ run < MaxRuns
  /\ pc' = "main"
  /\ run' = run + 1
  /\ dry_run' = dry
  /\ dir_ok' = isdir
  /\ disk0' = disk
  /\ all_references' = <<>>
  /\ scanned' = {}
  /\ hash_mapping' = EmptyMapping
  /\ res_i' = 1
  /\ res_todo' = {}
  /\ queries' = EmptyMapping
  /\ git_failed' = FALSE
  /\ rw_i' = 1
  /\ files_modified' = 0
  /\ total_updates' = 0
  /\ printed' = <<>>
  /\ modified' = {}
  /\ written' = {}
  /\ results' = EmptyMapping
  /\ prev' = IF pc = "done"
               THEN [completed |-> TRUE, dry_run |-> dry_run, before |-> disk0,
                     printed |-> printed, total_updates |-> total_updates,
                     files_modified |-> files_modified]
               ELSE NoRun
  /\ UNCHANGED <<disk, history>>

\* main: parse_args and the assertion on the directory
CheckDirectory ==
  /\ pc = "main"
  /\ pc' = IF DirCheck(dir_ok) THEN "scan" ELSE "abort_dir"
  /\ UNCHANGED <<env, args, scan, resolver, rewriter, prev>>

\* main: all_references = collect_all_references(args.directory)
Scan ==
  /\ pc = "scan"
  /\ all_references' = collect_all_references(disk)
  /\ scanned' = Files
  /\ res_i' = 1
  /\ res_todo' = IF all_references' = <<>> THEN {} ELSE all_references'[1].references
  /\ pc' = IF all_references' = <<>> THEN "rewrite" ELSE "resolve"
  /\ UNCHANGED <<env, args, hash_mapping, queries, git_failed, rewriter, prev>>

\* the position of get_hash_mapping after the reference ref of the current item
AfterReference(ref) ==
  LET todo == res_todo \ {ref}
  IN  IF todo # {} THEN [pc |-> "resolve", i |-> res_i, todo |-> todo]
      ELSE IF res_i < Len(all_references)
        THEN [pc |-> "resolve", i |-> res_i + 1,
              todo |-> all_references[res_i + 1].references]
      ELSE [pc |-> "rewrite", i |-> res_i + 1, todo |-> {}]

\* get_hash_mapping: one iteration of "for ref in references", the references of
\* a file taken in the order the set is iterated in
ResolveStep ==
  /\ pc = "resolve"
  /\ \E ref \in res_todo :
       LET path == ref.action_path
           nxt  == AfterReference(ref)
       IN  IF AlreadyResolved(hash_mapping, path)
             THEN /\ pc' = nxt.pc
                  /\ res_i' = nxt.i
                  /\ res_todo' = nxt.todo
                  /\ UNCHANGED <<hash_mapping, queries, git_failed>>
             ELSE \E reply \in GitReplies(history, path) :
                    LET latest == get_latest_commit_for_path(reply)
                    IN  /\ queries' = Store(queries, path,
                                            IF path \in DOMAIN queries
                                              THEN queries[path] + 1 ELSE 1)
                        /\ git_failed' = (git_failed \/ reply.returncode # 0
                                            \/ Strip(reply.stdout) = <<>>)
                        /\ IF latest.raised
                             THEN /\ pc' = "abort_query"
                                  /\ UNCHANGED <<hash_mapping, res_i, res_todo>>
                             ELSE /\ hash_mapping' = Store(hash_mapping, path, latest.value)
                                  /\ pc' = nxt.pc
                                  /\ res_i' = nxt.i
                                  /\ res_todo' = nxt.todo
  /\ UNCHANGED <<env, args, scan, rewriter, prev>>

\* main: one iteration of "for file, references in all_references.items()"
RewriteFile ==
  /\ pc = "rewrite"
  /\ rw_i <= Len(all_references)
  /\ LET file        == all_references[rw_i].file
         old_content == disk[file]
     IN  \E order \in Orders(all_references[rw_i].references) :
           \* (acc and st are each the one value of a set, to be computed once)
           \E acc \in {UpdateReferences([content |-> old_content,
                                         total_updates |-> total_updates,
                                         printed |-> printed],
                                        file, order, hash_mapping)} :
             \E st \in {Persist(dry_run, file, acc.content, old_content,
                                [disk |-> disk, files_modified |-> files_modified,
                                 modified |-> modified, written |-> written])} :
               /\ total_updates' = acc.total_updates
               /\ printed' = acc.printed
               /\ disk' = st.disk
               /\ files_modified' = st.files_modified
               /\ modified' = st.modified
               /\ written' = st.written
               /\ results' = Store(results, file,
                                   [content |-> acc.content,
                                    updates |-> acc.total_updates - total_updates])
  /\ rw_i' = rw_i + 1
  /\ UNCHANGED <<pc, env, args, scan, resolver, prev>>

\* main: the summary after the loop
Finish ==
  /\ pc = "rewrite"
  /\ rw_i > Len(all_references)
  /\ pc' = "done"
  /\ UNCHANGED <<env, args, scan, resolver, rewriter, prev>>

Next ==
  \/ \E dry \in BOOLEAN, isdir \in BOOLEAN : Invoke(dry, isdir)
  \/ CheckDirectory
  \/ Scan
  \/ ResolveStep
  \/ RewriteFile
  \/ Finish

Spec == Init /\ [][Next]_vars

-----------------------------------------------------------------------------
(* Helpers of the properties *)

\* the positions of the text s outside the substrings the scanner matches
Unmatched(s) ==
  LET ms == FindIter(s, 1)
  IN  (1..Len(s)) \ UNION {ms[k].start..(ms[k].stop - 1) : k \in 1..Len(ms)}

\* the items of all_references of the file f: one, or none when the scanner found
\* no reference in it
ItemsOf(f) == {k \in 1..Len(all_references) : all_references[k].file = f}

\* the action paths of the scan results
FoundPaths == {r.action_path : r \in UNION {all_references[k].references :
                                              k \in 1..Len(all_references)}}

\* the entries of an item of all_references whose hash is not the resolved one
StaleEntries(item) ==
  {r \in item.references : r.current_hash # hash_mapping[r.action_path]}

\* the number of stale entries of the first n items of all_references
RECURSIVE StaleCount(_)
StaleCount(n) ==
  IF n = 0 THEN 0 ELSE StaleCount(n - 1) + Cardinality(StaleEntries(all_references[n]))

\* the run just completed and the completed run before it started from the same
\* files, one of them in preview mode and the other in normal mode
PreviewNormalPair ==
  /\ pc = "done"
  /\ prev.completed
  /\ prev.dry_run # dry_run
  /\ prev.before = disk0

\* the files of the printed lines, in order
PrintedFiles(lines) == [k \in 1..Len(lines) |-> lines[k].file]

\* the printed lines, as a set
PrintedSet(lines) == {lines[k] : k \in 1..Len(lines)}

-----------------------------------------------------------------------------
(* The properties *)

\* C1: a run with --dry-run writes no file: as long as it runs, and when it has
\* completed or aborted, the disk is what it was when the run started.
DryRunWritesNothing == dry_run => (disk = disk0 /\ written = {})

\* C1, witness: a preview run completed that had a file to modify
DryRunWithUpdatesDone == pc = "done" /\ dry_run /\ files_modified > 0

\* C2: after a completed normal run, every reference the scanner finds in every
\* file carries the hash the run resolved for its own action_path.
EveryOccurrenceCarriesResolvedHash ==
  (pc = "done" /\ ~dry_run) =>
    \A f \in Files : \A r \in find_action_references(disk[f]) :
      /\ r.action_path \in DOMAIN hash_mapping
      /\ r.current_hash = hash_mapping[r.action_path]

\* C3: of two successive completed normal runs (the history is the same in both),
\* the second performs no substitution and writes no file.
SecondRunChangesNothing ==
  (pc = "done" /\ ~dry_run /\ prev.completed /\ ~prev.dry_run) =>
    /\ total_updates = 0
    /\ files_modified = 0
    /\ written = {}

EachPathResolvedOnce ==
  /\ \A p \in DOMAIN queries : queries[p] = 1
  /\ DOMAIN queries \subseteq FoundPaths
  /\ pc \in {"rewrite", "done"} =>
       (DOMAIN queries = FoundPaths /\ DOMAIN hash_mapping = FoundPaths)
  /\ all_references = <<>> => queries = EmptyMapping

\* C5, witness: a run completed in which two files refer to the same path with
\* different hashes
SamePathInTwoFilesDone ==
  /\ pc = "done"
  /\ Len(all_references) = 2
  /\ \E r1 \in all_references[1].references, r2 \in all_references[2].references :
       r1.action_path = r2.action_path /\ r1.current_hash # r2.current_hash

\* C6: once a git query failed (non-zero status or empty output) the run is
\* aborted, no file was written and the rewriter handled no file; and while the
\* resolver runs no file has been written.
QueryFailureLeavesDiskUntouched ==
  /\ git_failed =>
       (pc = "abort_query" /\ disk = disk0 /\ written = {} /\ modified = {}
          /\ results = EmptyMapping /\ rw_i = 1)
  /\ pc \in {"resolve", "abort_query"} =>
       (disk = disk0 /\ written = {} /\ results = EmptyMapping)

\* C6, witness: a query failed after another path had been resolved
AbortedWithPartialMapping == pc = "abort_query" /\ DOMAIN hash_mapping # {}

\* C7: when the path is not a directory the run goes from the assertion to the
\* abort: no file is scanned, no query issued, no file written.
NotADirectoryAbortsBeforeWork ==
  ~dir_ok =>
    /\ pc \in {"main", "abort_dir"}
    /\ scanned = {}
    /\ all_references = <<>>
    /\ queries = EmptyMapping
    /\ written = {}
    /\ disk = disk0

\* C7, witness: the run aborted on the assertion, with references on the disk
AbortedOnDirectory == pc = "abort_dir" /\ collect_all_references(disk) # <<>>

\* C8: a file is counted as modified iff its content after the substitutions
\* differs from its original content; in normal mode the files written are the
\* files counted, in preview mode none is written; a file without a stale
\* reference is not written and adds no update.
ModifiedIffContentDiffers ==
  /\ files_modified = Cardinality(modified)
  /\ modified \subseteq DOMAIN results
  /\ \A f \in DOMAIN results : (f \in modified) <=> (results[f].content # disk0[f])
  /\ written = IF dry_run THEN {} ELSE modified
  /\ ~dry_run => files_modified = Cardinality(written)
  /\ \A f \in written : disk[f] = results[f].content
  /\ \A f \in Files \ written : disk[f] = disk0[f]
  /\ pc \in {"rewrite", "done"} =>
       \A f \in Files :
         (\A k \in ItemsOf(f) : StaleEntries(all_references[k]) = {})
           => /\ f \notin written
              /\ f \notin modified
              /\ f \in DOMAIN results => results[f].updates = 0

\* C8, witness: a normal run completed that wrote a file and left alone another
\* whose references were all current
WroteOneLeftOneDone ==
  /\ pc = "done"
  /\ ~dry_run
  /\ written # {}
  /\ \E f \in DOMAIN results : f \notin modified

\* C9, as stated: a preview run and a normal run on the same files print the same
\* sequence of substitution lines and end with the same counters.
PreviewPrintsSameSequence ==
  PreviewNormalPair =>
    /\ prev.printed = printed
    /\ prev.total_updates = total_updates
    /\ prev.files_modified = files_modified

\* C9, amended: a preview run and a normal run on the same files print the same
\* substitution lines, file after file in the same order of files, and end with the
\* same counters; the order of the lines of one file may differ.
PreviewReportsSameUpdates ==
  PreviewNormalPair =>
    /\ PrintedSet(prev.printed) = PrintedSet(printed)
    /\ PrintedFiles(prev.printed) = PrintedFiles(printed)
    /\ prev.total_updates = total_updates
    /\ prev.files_modified = files_modified

\* C9, witness: a preview run, then a normal run on the same files that wrote one,
\* the two printing the lines of a file in different orders
PreviewThenNormalReordered ==
  /\ PreviewNormalPair
  /\ written # {}
  /\ prev.printed # printed

\* C10: total_updates is the number of stale entries of the files handled so far,
\* each file adding the number of its own; files_modified never exceeds it; a file
\* whose only reference occurrence is stale adds one update and is counted once.
TotalUpdatesCountsStaleEntries ==
  pc \in {"rewrite", "done"} =>
    /\ total_updates = StaleCount(rw_i - 1)
    /\ Len(printed) = total_updates
    /\ files_modified <= total_updates
    /\ \A k \in 1..(rw_i - 1) :
         LET item == all_references[k]
         IN  /\ results[item.file].updates = Cardinality(StaleEntries(item))
             /\ (Len(FindIter(disk0[item.file], 1)) = 1 /\ StaleEntries(item) # {})
                  => (results[item.file].updates = 1 /\ item.file \in modified)

\* C10, witness: a run completed in which one update of a file changed more than
\* one occurrence
OneUpdateSeveralOccurrencesDone ==
  /\ pc = "done"
  /\ \E f \in DOMAIN results :
       /\ results[f].updates = 1
       /\ Cardinality({i \in 1..Len(disk0[f]) : results[f].content[i] # disk0[f][i]})
            > HashLen

====
